---- MODULE Spec2Model ----
(***************************************************************************)
(* Model of bot.py: the run-once posting script (main), the image source   *)
(* collaborator (download_random_picsum) and the image fitter              *)
(* (convert_and_compress_to_jpeg).                                         *)
(*                                                                         *)
(* A raster is a record [w, h, mode, gen]; gen counts the resize calls     *)
(* that lie between the decoded source and this raster, so that the        *)
(* raster an operation works on can be told from a raster derived from it. *)
(* An encoded JPEG is a record [len, w, h, q, round]: its byte length, the *)
(* pixel dimensions of the raster that was saved, the quality used and     *)
(* the scale round (0 = full resolution) in which it was produced.         *)
(* Strings read from the environment are sequences of characters.          *)
(***************************************************************************)
EXTENDS Integers, Sequences, FiniteSets, TLC

\* ------------------------------------------------------------------ bounds
\* number of successive fitter calls made by the repeated-call harness
MaxCalls == 2

\* distance from the two thresholds at which encoded sizes are sampled
SizeMargin == 1

\* ------------------------------------------------------- program constants
common_resolutions ==
    << <<1920, 1080>>, <<1280, 720>>, <<1024, 768>>, <<600, 800>>,
       <<800, 600>>, <<800, 800>>, <<1600, 900>> >>

MAX_BYTES == 1000000

TARGET_MAX_BYTES == 950000

\* faulty variant: two levels of the list exchanged
FullLadder_Swapped ==
    <<95, 90, 92, 88, 85, 82, 80, 78, 75, 72, 70, 65, 60, 55, 50>>

FullLadder == <<95, 92, 90, 88, 85, 82, 80, 78, 75, 72, 70, 65, 60, 55, 50>>

ScaleLadder == <<80, 75, 70, 65, 60, 55>>

\* range(5)
ScaleRounds == 5

\* the literal 0.9 as a fraction <<numerator, denominator>>
ScaleStep == <<9, 10>>

\* ----------------------------------------------------------------- helpers
Max(a, b) == IF a >= b THEN a ELSE b

\* scale *= 0.9 on fractions
ScaleMul(s, f) == <<s[1] * f[1], s[2] * f[2]>>

\* int(x * scale): Python's int() truncates toward zero; x and scale are
\* non-negative, so truncation is the floor of the product.  The double
\* nearest to 0.9 lies above 0.9 and the products of the catalog values
\* with the compounded doubles truncate to the same integers as the exact
\* fractions 9^k/10^k for k = 1..5.
IntMul(x, s) == (x * s[1]) \div s[2]

\* faulty variant: round(x * scale) in place of int(x * scale)
ScaledDim_Rounded(x, s) == Max(1, (2 * x * s[1] + s[2]) \div (2 * s[2]))

ScaledDim(x, s) == Max(1, IntMul(x, s))

\* Image.resize((w, h), LANCZOS): a new raster derived from r
Resize(r, w, h) == [w |-> w, h |-> h, mode |-> r.mode, gen |-> r.gen + 1]

\* img.convert("RGB")
ConvertRGB(r) == [r EXCEPT !.mode = "RGB"]

RECURSIVE LStrip(_)
LStrip(s) == IF s # <<>> /\ Head(s) = " " THEN LStrip(Tail(s)) ELSE s

RECURSIVE RStrip(_)
RStrip(s) == IF s # <<>> /\ s[Len(s)] = " "
             THEN RStrip(SubSeq(s, 1, Len(s) - 1)) ELSE s

\* str.strip()
Strip(s) == RStrip(LStrip(s))

\* ------------------------------------------------------ environment inputs
\* values os.environ.get(name, "") can yield: unset or empty, blank, set,
\* set with surrounding blanks
EnvValues == { <<>>, <<" ">>, <<"h">>, <<" ", "h", " ">> }

\* encoded sizes an encode may yield: around the budget and around the
\* hard limit
Sizes == { TARGET_MAX_BYTES - SizeMargin, TARGET_MAX_BYTES,
           TARGET_MAX_BYTES + SizeMargin, MAX_BYTES + SizeMargin }

\* sizes used when the encoder is a fixed function revealed call by call
FixedSizes == { TARGET_MAX_BYTES, TARGET_MAX_BYTES + SizeMargin }

SourceModes == {"RGB", "L", "RGBA"}

\* a source whose pixel size is not the requested one
OtherSize == <<640, 480>>

\* the byte strings a fetch of (w, h) can deliver: a valid image of the
\* requested or of another size in some colour mode, bytes with no image
\* header, and a file with a readable header whose pixel data is cut short
RawInputs(w, h) ==
    { [kind |-> "ok", w |-> d[1], h |-> d[2], mode |-> m] :
          d \in {<<w, h>>, OtherSize}, m \in SourceModes }
    \cup { [kind |-> "unidentified", w |-> 0, h |-> 0, mode |-> "none"] }
    \cup { [kind |-> "truncated", w |-> d[1], h |-> d[2], mode |-> "RGB"] :
               d \in {<<w, h>>, OtherSize} }

NoRaster == [w |-> 0, h |-> 0, mode |-> "none", gen |-> 0]

NoData == [len |-> -1, w |-> 0, h |-> 0, q |-> 0, round |-> 0]

NoInput == [kind |-> "none", w |-> 0, h |-> 0, mode |-> "none"]

NoScale == <<0, 1>>

\* ------------------------------------------------------------------- state
VARIABLES
    pc,            \* position of main (or "harness")
    err,           \* the error main aborted with, "none" otherwise
    handle,        \* main: handle, stripped
    app_password,  \* main: app_password, stripped
    width,         \* target width
    height,        \* target height
    raw_bytes,     \* the fetched bytes
    jpeg_bytes,    \* main: the fitter's return value
    fetches,       \* number of requests.get calls
    logins,        \* number of client.login calls
    posts,         \* number of client.send_image calls
    printed,       \* the success line was printed
    fpc,           \* position of convert_and_compress_to_jpeg
    ferr,          \* the exception the fitter raised, "none" otherwise
    img,           \* fitter local img
    tmp,           \* fitter local tmp
    qi,            \* index into the quality list being iterated
    rnd,           \* 1-based iteration of `for _ in range(5)`
    scale,         \* fitter local scale, a fraction
    data,          \* fitter local data (last encoding)
    result,        \* the value the fitter returned
    attempts,      \* history: the encodes of the current call, in order
    resizes,       \* history: resize calls of the current call
    calls,         \* number of fitter calls started
    memo,          \* harness: the encoder's function as revealed so far
    outcomes       \* harness: the outcome of each finished call

mainVars == <<pc, err, handle, app_password, jpeg_bytes, fetches, logins,
              posts, printed>>

inputVars == <<width, height, raw_bytes>>

fitVars == <<fpc, ferr, img, tmp, qi, rnd, scale, data, result, attempts,
             resizes>>

\* what a step of the fitter leaves alone, the encoder's record apart
callerVars == <<pc, err, handle, app_password, jpeg_bytes, fetches, logins,
                posts, printed, width, height, raw_bytes, calls, outcomes>>

vars == <<pc, err, handle, app_password, width, height, raw_bytes,
          jpeg_bytes, fetches, logins, posts, printed, fpc, ferr, img, tmp,
          qi, rnd, scale, data, result, attempts, resizes, calls, memo,
          outcomes>>

FitInit ==
    /\ fpc = "idle"
    /\ ferr = "none"
    /\ img = NoRaster
    /\ tmp = NoRaster
    /\ qi = 0
    /\ rnd = 0
    /\ scale = NoScale
    /\ data = NoData
    /\ result = NoData
    /\ attempts = <<>>
    /\ resizes = 0
    /\ calls = 0
    /\ memo = {}
    /\ outcomes = <<>>

Init ==
    /\ pc = "start"
    /\ err = "none"
    /\ handle = <<>>
    /\ app_password = <<>>
    /\ width = 0
    /\ height = 0
    /\ raw_bytes = NoInput
    /\ jpeg_bytes = NoData
    /\ fetches = 0
    /\ logins = 0
    /\ posts = 0
    /\ printed = FALSE
    /\ FitInit

\* ------------------------------------------------------------------ fitter
\* An exception leaves the function: nothing is returned.
Raise(e) ==
    /\ fpc' = "raised"
    /\ ferr' = e
    /\ result' = NoData

\* img = Image.open(io.BytesIO(img_bytes)): reads the header only
FitOpen ==
    /\ fpc = "open"
    /\ IF raw_bytes.kind = "unidentified"
       THEN /\ Raise("DecodeError")
            /\ UNCHANGED img
       ELSE /\ img' = [w |-> raw_bytes.w, h |-> raw_bytes.h,
                       mode |-> raw_bytes.mode, gen |-> 0]
            /\ fpc' = "convert"
            /\ UNCHANGED <<ferr, result>>
    /\ UNCHANGED <<tmp, qi, rnd, scale, data, attempts, resizes>>
    /\ UNCHANGED <<callerVars, memo>>

\* faulty variant: the resize is called before the conversion, so that the pixel
\* data is first loaded inside the resize call
FitConvert_ResizeFirst ==
    /\ fpc = "convert"
    /\ LET differs == <<img.w, img.h>> # <<width, height>>
           sized == IF differs THEN Resize(img, width, height) ELSE img
       IN  /\ resizes' = resizes + (IF differs THEN 1 ELSE 0)
           /\ IF raw_bytes.kind = "truncated"
              THEN /\ Raise("DecodeError")
                   /\ UNCHANGED img
              ELSE /\ img' = ConvertRGB(sized)
                   /\ fpc' = "resize"
                   /\ UNCHANGED <<ferr, result>>
    /\ UNCHANGED <<tmp, qi, rnd, scale, data, attempts>>
    /\ UNCHANGED <<callerVars, memo>>

\* img = img.convert("RGB"): loads the pixel data
FitConvert ==
    /\ fpc = "convert"
    /\ IF raw_bytes.kind = "truncated"
       THEN /\ Raise("DecodeError")
            /\ UNCHANGED img
       ELSE /\ img' = ConvertRGB(img)
            /\ fpc' = "resize"
            /\ UNCHANGED <<ferr, result>>
    /\ UNCHANGED <<tmp, qi, rnd, scale, data, attempts, resizes>>
    /\ UNCHANGED <<callerVars, memo>>

\* if img.size != (width, height): img = img.resize(...); then the
\* iteration over the full-resolution quality list begins
FitResize ==
    /\ fpc = "resize"
    /\ IF <<img.w, img.h>> # <<width, height>>
       THEN /\ img' = Resize(img, width, height)
            /\ resizes' = resizes + 1
       ELSE UNCHANGED <<img, resizes>>
    /\ qi' = 1
    /\ fpc' = "quality"
    /\ UNCHANGED <<ferr, tmp, rnd, scale, data, result, attempts>>
    /\ UNCHANGED <<callerVars, memo>>

\* img.save(out, "JPEG", quality=quality, ...) yielding sz bytes
Encode(r, q, k, sz) == [len |-> sz, w |-> r.w, h |-> r.h, q |-> q, round |-> k]

\* history entry of one encode: the candidate and whether the encoder's
\* output exceeded the budget
Attempt(r, q, k, sz) ==
    [round |-> k, quality |-> q, w |-> r.w, h |-> r.h, gen |-> r.gen,
     over |-> sz > TARGET_MAX_BYTES]

\* one iteration of the full-resolution quality loop
FitQuality(sz) ==
    /\ fpc = "quality"
    /\ data' = Encode(img, FullLadder[qi], 0, sz)
    /\ attempts' = Append(attempts, Attempt(img, FullLadder[qi], 0, sz))
    /\ IF sz <= TARGET_MAX_BYTES
       THEN /\ fpc' = "returned"
            /\ result' = data'
            /\ UNCHANGED qi
       ELSE /\ IF qi < Len(FullLadder)
               THEN /\ qi' = qi + 1
                    /\ UNCHANGED fpc
               ELSE /\ fpc' = "scale_init"
                    /\ UNCHANGED qi
            /\ UNCHANGED result
    /\ UNCHANGED <<ferr, img, tmp, rnd, scale, resizes>>
    /\ UNCHANGED callerVars

\* faulty variant: scale kept from an earlier call (a module-level variable that
\* is set once)
FitScaleInit_KeepScale ==
    /\ fpc = "scale_init"
    /\ scale' = (IF scale = NoScale THEN ScaleStep ELSE scale)
    /\ rnd' = 1
    /\ fpc' = "scale_resize"
    /\ UNCHANGED <<ferr, img, tmp, qi, data, result, attempts, resizes>>
    /\ UNCHANGED <<callerVars, memo>>

\* scale = 0.9, and the first iteration of range(5) begins
FitScaleInit ==
    /\ fpc = "scale_init"
    /\ scale' = ScaleStep
    /\ rnd' = 1
    /\ fpc' = "scale_resize"
    /\ UNCHANGED <<ferr, img, tmp, qi, data, result, attempts, resizes>>
    /\ UNCHANGED <<callerVars, memo>>

\* faulty variant: from the second round on, the previous round's raster is shrunk
\* by 0.9
FitScaleResize_Chained ==
    /\ fpc = "scale_resize"
    /\ tmp' = (IF rnd = 1
               THEN Resize(img, ScaledDim(width, scale),
                           ScaledDim(height, scale))
               ELSE Resize(tmp, ScaledDim(tmp.w, ScaleStep),
                           ScaledDim(tmp.h, ScaleStep)))
    /\ resizes' = resizes + 1
    /\ qi' = 1
    /\ fpc' = "scale_quality"
    /\ UNCHANGED <<ferr, img, rnd, scale, data, result, attempts>>
    /\ UNCHANGED <<callerVars, memo>>

\* new_w, new_h and tmp = img.resize((new_w, new_h), LANCZOS)
FitScaleResize ==
    /\ fpc = "scale_resize"
    /\ tmp' = Resize(img, ScaledDim(width, scale), ScaledDim(height, scale))
    /\ resizes' = resizes + 1
    /\ qi' = 1
    /\ fpc' = "scale_quality"
    /\ UNCHANGED <<ferr, img, rnd, scale, data, result, attempts>>
    /\ UNCHANGED <<callerVars, memo>>

\* faulty variant: the scale rounds compare against the hard limit
FitScaleQuality_HardLimit(sz) ==
    /\ fpc = "scale_quality"
    /\ data' = Encode(tmp, ScaleLadder[qi], rnd, sz)
    /\ attempts' = Append(attempts, Attempt(tmp, ScaleLadder[qi], rnd, sz))
    /\ IF sz <= MAX_BYTES
       THEN /\ fpc' = "returned"
            /\ result' = data'
            /\ UNCHANGED qi
       ELSE /\ IF qi < Len(ScaleLadder)
               THEN /\ qi' = qi + 1
                    /\ UNCHANGED fpc
               ELSE /\ fpc' = "scale_next"
                    /\ UNCHANGED qi
            /\ UNCHANGED result
    /\ UNCHANGED <<ferr, img, tmp, rnd, scale, resizes>>
    /\ UNCHANGED callerVars

\* one iteration of the quality loop of a scale round
FitScaleQuality(sz) ==
    /\ fpc = "scale_quality"
    /\ data' = Encode(tmp, ScaleLadder[qi], rnd, sz)
    /\ attempts' = Append(attempts, Attempt(tmp, ScaleLadder[qi], rnd, sz))
    /\ IF sz <= TARGET_MAX_BYTES
       THEN /\ fpc' = "returned"
            /\ result' = data'
            /\ UNCHANGED qi
       ELSE /\ IF qi < Len(ScaleLadder)
               THEN /\ qi' = qi + 1
                    /\ UNCHANGED fpc
               ELSE /\ fpc' = "scale_next"
                    /\ UNCHANGED qi
            /\ UNCHANGED result
    /\ UNCHANGED <<ferr, img, tmp, rnd, scale, resizes>>
    /\ UNCHANGED callerVars

\* faulty variant: one scale round too few
FitScaleNext_OneShort ==
    /\ fpc = "scale_next"
    /\ scale' = ScaleMul(scale, ScaleStep)
    /\ IF rnd < ScaleRounds - 1
       THEN /\ rnd' = rnd + 1
            /\ fpc' = "scale_resize"
            /\ UNCHANGED <<ferr, result>>
       ELSE /\ Raise("CompressionExhausted")
            /\ UNCHANGED rnd
    /\ UNCHANGED <<img, tmp, qi, data, attempts, resizes>>
    /\ UNCHANGED <<callerVars, memo>>

\* faulty variant: one scale round too many
FitScaleNext_OneMore ==
    /\ fpc = "scale_next"
    /\ scale' = ScaleMul(scale, ScaleStep)
    /\ IF rnd < ScaleRounds + 1
       THEN /\ rnd' = rnd + 1
            /\ fpc' = "scale_resize"
            /\ UNCHANGED <<ferr, result>>
       ELSE /\ Raise("CompressionExhausted")
            /\ UNCHANGED rnd
    /\ UNCHANGED <<img, tmp, qi, data, attempts, resizes>>
    /\ UNCHANGED <<callerVars, memo>>

\* faulty variant: after the last round the last encoding is returned
FitScaleNext_ReturnLast ==
    /\ fpc = "scale_next"
    /\ scale' = ScaleMul(scale, ScaleStep)
    /\ IF rnd < ScaleRounds
       THEN /\ rnd' = rnd + 1
            /\ fpc' = "scale_resize"
            /\ UNCHANGED <<ferr, result>>
       ELSE /\ fpc' = "returned"
            /\ result' = data
            /\ UNCHANGED <<ferr, rnd>>
    /\ UNCHANGED <<img, tmp, qi, data, attempts, resizes>>
    /\ UNCHANGED <<callerVars, memo>>

\* scale *= 0.9, then the next iteration of range(5), or the raise after
\* the loop
FitScaleNext ==
    /\ fpc = "scale_next"
    /\ scale' = ScaleMul(scale, ScaleStep)
    /\ IF rnd < ScaleRounds
       THEN /\ rnd' = rnd + 1
            /\ fpc' = "scale_resize"
            /\ UNCHANGED <<ferr, result>>
       ELSE /\ Raise("CompressionExhausted")
            /\ UNCHANGED rnd
    /\ UNCHANGED <<img, tmp, qi, data, attempts, resizes>>
    /\ UNCHANGED <<callerVars, memo>>

\* entry of a call.  The frame's locals are unbound in Python; the model
\* leaves them at their last values, which the code overwrites before it
\* reads them.
FitEnter ==
    /\ fpc' = "open"
    /\ ferr' = "none"
    /\ result' = NoData
    /\ attempts' = <<>>
    /\ resizes' = 0
    /\ calls' = calls + 1
    /\ UNCHANGED <<img, tmp, qi, rnd, scale, data>>

\* -------------------------------------------------------------------- main
Abort(e) ==
    /\ pc' = "aborted"
    /\ err' = e

\* faulty variant: the check fails only when both credentials are missing
MainCredentials_And ==
    /\ pc = "start"
    /\ \E h \in EnvValues, p \in EnvValues :
          /\ handle' = Strip(h)
          /\ app_password' = Strip(p)
          /\ IF handle' = <<>> /\ app_password' = <<>>
             THEN Abort("ConfigError")
             ELSE /\ pc' = "choose"
                  /\ UNCHANGED err
    /\ UNCHANGED <<jpeg_bytes, fetches, logins, posts, printed>>
    /\ UNCHANGED <<inputVars, fitVars, calls, memo, outcomes>>

\* handle, app_password read and stripped; the credentials check
MainCredentials ==
    /\ pc = "start"
    /\ \E h \in EnvValues, p \in EnvValues :
          /\ handle' = Strip(h)
          /\ app_password' = Strip(p)
          /\ IF handle' = <<>> \/ app_password' = <<>>
             THEN Abort("ConfigError")
             ELSE /\ pc' = "choose"
                  /\ UNCHANGED err
    /\ UNCHANGED <<jpeg_bytes, fetches, logins, posts, printed>>
    /\ UNCHANGED <<inputVars, fitVars, calls, memo, outcomes>>

\* width, height = random.choice(common_resolutions)
MainChoose ==
    /\ pc = "choose"
    /\ \E i \in 1..Len(common_resolutions) :
          /\ width' = common_resolutions[i][1]
          /\ height' = common_resolutions[i][2]
    /\ pc' = "download"
    /\ UNCHANGED <<err, handle, app_password, raw_bytes, jpeg_bytes, fetches,
                   logins, posts, printed>>
    /\ UNCHANGED <<fitVars, calls, memo, outcomes>>

\* raw_bytes, final_url = download_random_picsum(width, height):
\* requests.get or raise_for_status raises, or the content is returned
download_random_picsum ==
    /\ pc = "download"
    /\ fetches' = fetches + 1
    /\ \/ /\ Abort("FetchError")
          /\ UNCHANGED raw_bytes
       \/ /\ raw_bytes' \in RawInputs(width, height)
          /\ pc' = "fit"
          /\ UNCHANGED err
    /\ UNCHANGED <<handle, app_password, width, height, jpeg_bytes, logins,
                   posts, printed>>
    /\ UNCHANGED <<fitVars, calls, memo, outcomes>>

\* the call convert_and_compress_to_jpeg(raw_bytes, width, height)
MainCallFit ==
    /\ pc = "fit"
    /\ FitEnter
    /\ pc' = "infit"
    /\ UNCHANGED <<err, handle, app_password, jpeg_bytes, fetches, logins,
                   posts, printed>>
    /\ UNCHANGED <<inputVars, memo, outcomes>>

\* an encode while main waits for the fitter: the encoder may yield any
\* size for any candidate
Quality ==
    /\ pc = "infit"
    /\ \E sz \in Sizes : FitQuality(sz)
    /\ UNCHANGED memo

ScaleQuality ==
    /\ pc = "infit"
    /\ \E sz \in Sizes : FitScaleQuality(sz)
    /\ UNCHANGED memo

\* jpeg_bytes = <the returned value>, or the fitter's exception propagates
MainFitReturn ==
    /\ pc = "infit"
    /\ fpc \in {"returned", "raised"}
    /\ IF fpc = "returned"
       THEN /\ jpeg_bytes' = result
            /\ pc' = "check"
            /\ UNCHANGED err
       ELSE /\ Abort(ferr)
            /\ UNCHANGED jpeg_bytes
    /\ UNCHANGED <<handle, app_password, fetches, logins, posts, printed>>
    /\ UNCHANGED <<inputVars, fitVars, calls, memo, outcomes>>

\* if len(jpeg_bytes) > MAX_BYTES: raise RuntimeError("Image is still too
\* large")
MainCheckSize ==
    /\ pc = "check"
    /\ IF jpeg_bytes.len > MAX_BYTES
       THEN Abort("SizeLimitViolation")
       ELSE /\ pc' = "login"
            /\ UNCHANGED err
    /\ UNCHANGED <<handle, app_password, jpeg_bytes, fetches, logins, posts,
                   printed>>
    /\ UNCHANGED <<inputVars, fitVars, calls, memo, outcomes>>

\* client = Client(...); client.login(handle, app_password): returns or
\* raises
MainLogin ==
    /\ pc = "login"
    /\ logins' = logins + 1
    /\ \/ Abort("LoginError")
       \/ /\ pc' = "send"
          /\ UNCHANGED err
    /\ UNCHANGED <<handle, app_password, jpeg_bytes, fetches, posts, printed>>
    /\ UNCHANGED <<inputVars, fitVars, calls, memo, outcomes>>

\* text, alt, client.send_image(...): returns or raises
MainSend ==
    /\ pc = "send"
    /\ posts' = posts + 1
    /\ \/ Abort("PostError")
       \/ /\ pc' = "print"
          /\ UNCHANGED err
    /\ UNCHANGED <<handle, app_password, jpeg_bytes, fetches, logins, printed>>
    /\ UNCHANGED <<inputVars, fitVars, calls, memo, outcomes>>

\* print("Posted successfully:", ...)
MainPrint ==
    /\ pc = "print"
    /\ printed' = TRUE
    /\ pc' = "done"
    /\ UNCHANGED <<err, handle, app_password, jpeg_bytes, fetches, logins,
                   posts>>
    /\ UNCHANGED <<inputVars, fitVars, calls, memo, outcomes>>

Next ==
    \/ MainCredentials
    \/ MainChoose
    \/ download_random_picsum
    \/ MainCallFit
    \/ FitOpen
    \/ FitConvert
    \/ FitResize
    \/ Quality
    \/ FitScaleInit
    \/ FitScaleResize
    \/ ScaleQuality
    \/ FitScaleNext
    \/ MainFitReturn
    \/ MainCheckSize
    \/ MainLogin
    \/ MainSend
    \/ MainPrint

Spec == Init /\ [][Next]_vars

\* The script is single-threaded and synchronous and the fitter makes no
\* blocking call: a fitter step that is enabled is taken.
FitterNext ==
    \/ FitOpen
    \/ FitConvert
    \/ FitResize
    \/ Quality
    \/ FitScaleInit
    \/ FitScaleResize
    \/ ScaleQuality
    \/ FitScaleNext

FairSpec == Spec /\ WF_vars(FitterNext)

\* ------------------------------------------------- repeated calls in sequence
\* The fitter called MaxCalls times in sequence on one input, with the
\* encoder a fixed function of (raster, dimensions, quality).  The function
\* is revealed as it is used: memo holds the size of every candidate encoded
\* so far, and a candidate encoded again yields the same size.
InitTwice ==
    /\ pc = "harness"
    /\ err = "none"
    /\ handle = <<>>
    /\ app_password = <<>>
    /\ \E i \in 1..Len(common_resolutions) :
          /\ width = common_resolutions[i][1]
          /\ height = common_resolutions[i][2]
    /\ raw_bytes \in RawInputs(width, height)
    /\ jpeg_bytes = NoData
    /\ fetches = 0
    /\ logins = 0
    /\ posts = 0
    /\ printed = FALSE
    /\ FitInit

EncoderKey(r, q) == [gen |-> r.gen, w |-> r.w, h |-> r.h, q |-> q]

EncoderSizes(r, q) ==
    LET known == { m \in memo : m.key = EncoderKey(r, q) }
    IN  IF known = {} THEN FixedSizes ELSE { m.len : m \in known }

HarnessCall ==
    /\ pc = "harness"
    /\ fpc = "idle"
    /\ calls < MaxCalls
    /\ FitEnter
    /\ UNCHANGED <<mainVars, inputVars, memo, outcomes>>

HarnessCollect ==
    /\ pc = "harness"
    /\ fpc \in {"returned", "raised"}
    /\ outcomes' = Append(outcomes, [status |-> fpc, err |-> ferr,
                                     result |-> result, attempts |-> attempts])
    /\ fpc' = "idle"
    /\ UNCHANGED <<mainVars, inputVars, calls, memo>>
    /\ UNCHANGED <<ferr, img, tmp, qi, rnd, scale, data, result, attempts,
                   resizes>>

QualityFixed ==
    /\ pc = "harness"
    /\ fpc = "quality"
    /\ \E sz \in EncoderSizes(img, FullLadder[qi]) :
          /\ FitQuality(sz)
          /\ memo' = memo \cup {[key |-> EncoderKey(img, FullLadder[qi]),
                                 len |-> sz]}

ScaleQualityFixed ==
    /\ pc = "harness"
    /\ fpc = "scale_quality"
    /\ \E sz \in EncoderSizes(tmp, ScaleLadder[qi]) :
          /\ FitScaleQuality(sz)
          /\ memo' = memo \cup {[key |-> EncoderKey(tmp, ScaleLadder[qi]),
                                 len |-> sz]}

NextTwice ==
    \/ HarnessCall
    \/ HarnessCollect
    \/ FitOpen
    \/ FitConvert
    \/ FitResize
    \/ QualityFixed
    \/ FitScaleInit
    \/ FitScaleResize
    \/ ScaleQualityFixed
    \/ FitScaleNext

SpecTwice == InitTwice /\ [][NextTwice]_vars

\* ------------------------------------------------------------------ claims
Terminal == {"returned", "raised"}

ScalePhases == {"scale_resize", "scale_quality", "scale_next"}

RECURSIVE Pow(_, _)
Pow(b, k) == IF k = 0 THEN 1 ELSE b * Pow(b, k - 1)

\* floor(x * 0.9^k)
FloorScaled(x, k) == (x * Pow(9, k)) \div Pow(10, k)

\* round(x * 0.9^k), ties to even as Python's round
RoundScaled(x, k) ==
    LET n == x * Pow(9, k)
        d == Pow(10, k)
        fl == n \div d
        rem == n % d
    IN  IF 2 * rem > d THEN fl + 1
        ELSE IF 2 * rem < d THEN fl
        ELSE IF fl % 2 = 0 THEN fl ELSE fl + 1

AllOver(n) == \A i \in 1..n : attempts[i].over

\* the candidate order as the claim states it
ClaimedFull == <<95, 92, 90, 88, 85, 82, 80, 78, 75, 72, 70, 65, 60, 55, 50>>

ClaimedScale == <<80, 75, 70, 65, 60, 55>>

ClaimedOrder ==
    [i \in 1..45 |->
        IF i <= 15 THEN <<0, ClaimedFull[i]>>
        ELSE <<((i - 16) \div 6) + 1, ClaimedScale[((i - 16) % 6) + 1]>>]

\* C1: whenever the fitter has returned, the returned byte sequence is at
\* most TARGET_MAX_BYTES long, hence at most MAX_BYTES, whatever sizes the
\* encoder gave to the candidates; the same holds of what main received.
C1_WithinBudget ==
    /\ fpc = "returned" =>
          /\ result # NoData
          /\ result.len <= TARGET_MAX_BYTES
          /\ result.len <= MAX_BYTES
    /\ jpeg_bytes # NoData =>
          /\ jpeg_bytes.len <= TARGET_MAX_BYTES
          /\ jpeg_bytes.len <= MAX_BYTES

\* a return from a scale round with an encoding exactly at the budget
C1_Witness ==
    /\ fpc = "returned"
    /\ result.round >= 1
    /\ result.len = TARGET_MAX_BYTES
    /\ \E i \in 1..Len(attempts) : attempts[i].over

\* C2: the encodes follow the one fixed candidate order (15 full-resolution
\* levels, then rounds 1..5 with 6 levels each); every candidate before the
\* last one encoded exceeded the budget; a candidate within the budget is
\* the last one encoded and is what the fitter returns; no scale round
\* starts unless all 15 full-resolution levels failed.
C2_GreedyFirstSuccess ==
    LET n == Len(attempts) IN
    /\ n <= 45
    /\ \A i \in 1..n :
          <<attempts[i].round, attempts[i].quality>> = ClaimedOrder[i]
    /\ \A i \in 1..n : i < n => attempts[i].over
    /\ (n > 0 /\ ~attempts[n].over) =>
          /\ fpc = "returned"
          /\ result.round = attempts[n].round
          /\ result.q = attempts[n].quality
          /\ result.w = attempts[n].w
          /\ result.h = attempts[n].h
    /\ fpc = "returned" => (n > 0 /\ ~attempts[n].over)
    /\ (fpc \in ScalePhases \/ tmp # NoRaster) => (n >= 15 /\ AllOver(15))

\* the first candidate within the budget is the third level of round 2
C2_Witness ==
    /\ fpc = "returned"
    /\ Len(attempts) = 24
    /\ result.round = 2
    /\ result.q = 70

\* C3 as stated: on success the pixel dimensions are (width, height) at
\* full resolution and (round(width*0.9^k), round(height*0.9^k)) in scale
\* round k.
C3_RoundedDims ==
    fpc = "returned" =>
        IF result.round = 0
        THEN <<result.w, result.h>> = <<width, height>>
        ELSE <<result.w, result.h>> =
                <<RoundScaled(width, result.round),
                  RoundScaled(height, result.round)>>

\* C3 amended: on success the pixel dimensions are (width, height) at full
\* resolution and (max(1, floor(width*0.9^k)), max(1, floor(height*0.9^k)))
\* in scale round k, for every catalog resolution and k in 1..5.
C3_TruncatedDims ==
    fpc = "returned" =>
        /\ \E i \in 1..Len(common_resolutions) :
              common_resolutions[i] = <<width, height>>
        /\ result.round \in 0..5
        /\ IF result.round = 0
           THEN <<result.w, result.h>> = <<width, height>>
           ELSE <<result.w, result.h>> =
                   <<Max(1, FloorScaled(width, result.round)),
                     Max(1, FloorScaled(height, result.round))>>

\* success in round 1 for 1024x768: 921x691, where rounding gives 922x691
C3_Witness ==
    /\ fpc = "returned"
    /\ <<width, height>> = <<1024, 768>>
    /\ result.round = 1
    /\ <<result.w, result.h>> = <<921, 691>>

\* C4: the fitter ends in the compression-exhausted error exactly when all
\* 15 + 5*6 candidates were encoded and each exceeded the budget; when it
\* fails no bytes are returned and main receives none.
C4_ExhaustedIff ==
    /\ (fpc = "raised" /\ ferr = "CompressionExhausted") =>
          /\ Len(attempts) = 45
          /\ AllOver(45)
          /\ result = NoData
          /\ jpeg_bytes = NoData
    /\ (fpc \in Terminal /\ Len(attempts) = 45 /\ AllOver(45)) =>
          (fpc = "raised" /\ ferr = "CompressionExhausted")
    /\ (err = "CompressionExhausted") =>
          (fpc = "raised" /\ ferr = "CompressionExhausted"
           /\ jpeg_bytes = NoData)

\* main aborted with the exhausted error after 45 failed encodes
C4_Witness ==
    /\ err = "CompressionExhausted"
    /\ pc = "aborted"
    /\ Len(attempts) = 45
    /\ AllOver(45)

\* C5: in scale round k the candidate dimensions are those computed from
\* the original width and height with the factor 0.9^k, each at least 1;
\* the raster resized is the full-resolution RGB raster made before the
\* quality search, which keeps its size, mode and identity in every round.
C5_FromOriginal ==
    /\ fpc \in ({"quality", "scale_init"} \cup ScalePhases) =>
          /\ <<img.w, img.h>> = <<width, height>>
          /\ img.mode = "RGB"
          /\ img.gen = (IF <<raw_bytes.w, raw_bytes.h>> = <<width, height>>
                        THEN 0 ELSE 1)
    /\ fpc \in {"scale_quality", "scale_next"} =>
          /\ rnd \in 1..5
          /\ tmp.gen = img.gen + 1
          /\ tmp.mode = "RGB"
          /\ tmp.w = Max(1, FloorScaled(width, rnd))
          /\ tmp.h = Max(1, FloorScaled(height, rnd))
          /\ tmp.w >= 1
          /\ tmp.h >= 1
    /\ \A i \in 1..Len(attempts) :
          attempts[i].round >= 1 =>
             /\ attempts[i].w = Max(1, FloorScaled(width, attempts[i].round))
             /\ attempts[i].h = Max(1, FloorScaled(height, attempts[i].round))
             /\ attempts[i].gen = img.gen + 1

\* round 3 of 1920x1080: 787 rows from the original height (786 from the
\* 874 rows of round 2), resized from a raster that was itself resized
C5_Witness ==
    /\ fpc = "scale_quality"
    /\ rnd = 3
    /\ <<width, height>> = <<1920, 1080>>
    /\ <<tmp.w, tmp.h>> = <<1399, 787>>
    /\ img.gen = 1
    /\ tmp.gen = 2

FatalErrors == {"ConfigError", "FetchError", "DecodeError",
                "CompressionExhausted", "SizeLimitViolation"}

\* C6: a login or a post happens only after both credentials were found
\* non-empty, the fetch succeeded, the fitter returned and the size is at
\* most MAX_BYTES; after any fatal condition the run is aborted with no
\* login, no post and no success line, nothing was tried twice, and with
\* missing credentials no fetch was made.
C6_PostOnlyAfterChecks ==
    /\ (logins > 0 \/ posts > 0 \/ pc \in {"send", "print", "done"}) =>
          /\ handle # <<>>
          /\ app_password # <<>>
          /\ fetches = 1
          /\ raw_bytes # NoInput
          /\ fpc = "returned"
          /\ jpeg_bytes = result
          /\ jpeg_bytes.len <= MAX_BYTES
    /\ posts > 0 => logins > 0
    /\ printed => posts > 0
    /\ err \in FatalErrors =>
          /\ pc = "aborted"
          /\ logins = 0
          /\ posts = 0
          /\ ~printed
    /\ err = "ConfigError" => (fetches = 0 /\ calls = 0)
    /\ err = "FetchError" => calls = 0
    /\ fetches <= 1
    /\ calls <= 1
    /\ logins <= 1
    /\ posts <= 1

\* the image was posted and the success line printed
C6_Witness ==
    /\ pc = "done"
    /\ printed
    /\ posts = 1
    /\ logins = 1

\* C7: a run of the fitter that ends in the decode error has made no
\* resize and no encode.
C7_DecodeErrorFirst ==
    (ferr = "DecodeError" \/ err = "DecodeError") =>
        /\ fpc = "raised"
        /\ Len(attempts) = 0
        /\ resizes = 0
        /\ data = NoData
        /\ result = NoData

\* a truncated file: the header was read, the pixel data failed to load
C7_Witness ==
    /\ fpc = "raised"
    /\ ferr = "DecodeError"
    /\ raw_bytes.kind = "truncated"
    /\ img # NoRaster

\* C8: calls made in sequence on identical input, with the encoder a fixed
\* function, have the same outcome (same bytes or same failure) after the
\* same candidates in the same order: a later call repeats the first call's
\* encodes one by one; within every ladder the quality strictly decreases.
C8_Deterministic ==
    /\ \A i, j \in 1..Len(outcomes) : outcomes[i] = outcomes[j]
    /\ Len(outcomes) > 0 =>
          /\ Len(attempts) <= Len(outcomes[1].attempts)
          /\ \A i \in 1..Len(attempts) :
                attempts[i] = outcomes[1].attempts[i]
    /\ \A i \in 1..(Len(attempts) - 1) :
          attempts[i].round = attempts[i + 1].round =>
             attempts[i].quality > attempts[i + 1].quality

\* two calls that both returned from scale round 2
C8_Witness ==
    /\ Len(outcomes) = 2
    /\ outcomes[1].status = "returned"
    /\ outcomes[2].status = "returned"
    /\ outcomes[2].result.round = 2
    /\ Len(outcomes[2].attempts) = 23

\* position of the fitter in its linear control flow
Rank ==
    CASE fpc = "idle" -> 0
      [] fpc = "open" -> 1
      [] fpc = "convert" -> 2
      [] fpc = "resize" -> 3
      [] fpc = "quality" -> 3 + qi
      [] fpc = "scale_init" -> 19
      [] fpc = "scale_resize" -> 10 + 10 * rnd
      [] fpc = "scale_quality" -> 10 + 10 * rnd + qi
      [] fpc = "scale_next" -> 10 + 10 * rnd + 7
      [] fpc \in Terminal -> 100

\* C9: a call makes at most 15 + 5*6 = 45 encodes; every step of the fitter
\* moves it forward in the order decode, normalize, resize, full-resolution
\* ladder, rounds 1..5 (the round index never decreases and the full ladder
\* is never re-entered); and every call that has started ends in the
\* returned or the raised state.
C9_Terminates ==
    /\ [](Len(attempts) <= 45 /\ rnd <= 5)
    /\ [][/\ Rank' >= Rank
          /\ (fpc' # fpc \/ qi' # qi \/ rnd' # rnd) => Rank' > Rank
          /\ rnd' >= rnd
          /\ fpc \in ({"scale_init"} \cup ScalePhases) => fpc' # "quality"
          /\ fpc \in Terminal => fpc' \in Terminal]_vars
    /\ (fpc = "open") ~> (fpc \in Terminal)

\* a call that ended after all 45 encodes
C9_Witness ==
    /\ fpc = "raised"
    /\ ferr = "CompressionExhausted"
    /\ Len(attempts) = 45
    /\ rnd = 5

\* C10: main never ends in the size-limit-violation error: whenever it is
\* at its size check the size is within MAX_BYTES, and its step from the
\* size check leads to the login.
C10_CheckUnreachable ==
    /\ [](err # "SizeLimitViolation")
    /\ [](pc = "check" => jpeg_bytes.len <= MAX_BYTES)
    /\ [][pc = "check" => pc' = "login"]_vars

\* main at the login with an encoding exactly at the budget
C10_Witness ==
    /\ pc = "login"
    /\ jpeg_bytes.len = TARGET_MAX_BYTES
    /\ jpeg_bytes.round = 0

====
